---- MODULE Spec2Model ----
(***************************************************************************)
(* Phase functions of the renderer: the Henyey-Greenstein kernel           *)
(* (src/src/phase/hg.cpp) and the blended phase function                   *)
(* (src/unnamed/part_000, plugin "blendphase").                            *)
(*                                                                         *)
(* Numbers.  A Float that the code only adds, multiplies, divides and      *)
(* compares is an extended rational <<n, d>>: d > 0 and gcd(n, d) = 1 for  *)
(* a finite value, <<0, 0>> for NaN, <<1, 0>> and <<-1, 0>> for the two    *)
(* infinities (rounding and the sign of zero are not modelled).  A Float   *)
(* that went through a square root is a finite sum of rational multiples   *)
(* of square roots of distinct squarefree integers, held as the function   *)
(* radicand |-> coefficient; such sums are equal as reals exactly when     *)
(* they are equal as functions.  Densities are in units of 1/(4 pi).       *)
(***************************************************************************)
EXTENDS Integers, Sequences, FiniteSets, TLC

VARIABLES
    obj,    \* the phase function object under construction / in use
    out     \* the last operation: its inputs and what it returned

vars == <<obj, out>>

----------------------------------------------------------------------------
(* Bounds of the model *)

\* m_g and the updates of "g" range over k/GDen, k in -(GDen+1) .. GDen+1
GDen == 2
\* sample1 ranges over k/UDen, k in 0 .. UDen-1
UDen == 4
\* a mixture's property list holds at most this many phase functions
MaxPhases == 3

----------------------------------------------------------------------------
(* Extended rationals *)

Abs(n) == IF n < 0 THEN -n ELSE n

Sgn(n) == IF n > 0 THEN 1 ELSE IF n < 0 THEN -1 ELSE 0

RECURSIVE GCD(_, _)
GCD(a, b) == IF b = 0 THEN a ELSE GCD(b, a % b)

R(n, d) ==
    IF d = 0 THEN <<Sgn(n), 0>>
    ELSE LET g == GCD(Abs(n), Abs(d))
         IN  <<(Sgn(d) * n) \div g, Abs(d) \div g>>

NaN == <<0, 0>>
PosInf == <<1, 0>>
NegInf == <<-1, 0>>
Zero == <<0, 1>>
One == <<1, 1>>
Two == <<2, 1>>

IsNaN(a) == a = NaN
IsFin(a) == a[2] # 0

RNeg(a) == <<-a[1], a[2]>>

RAdd(a, b) ==
    IF IsFin(a) /\ IsFin(b)
    THEN LET g == GCD(a[2], b[2])
         IN  R(a[1] * (b[2] \div g) + b[1] * (a[2] \div g), (a[2] \div g) * b[2])
    ELSE IF IsNaN(a) \/ IsNaN(b) THEN NaN
    ELSE IF IsFin(a) THEN b
    ELSE IF IsFin(b) THEN a
    ELSE IF a = b THEN a ELSE NaN

RSub(a, b) == RAdd(a, RNeg(b))

RMul(a, b) ==
    IF IsFin(a) /\ IsFin(b)
    THEN LET g == GCD(Abs(a[1]), b[2])
             h == GCD(Abs(b[1]), a[2])
         IN  R((a[1] \div g) * (b[1] \div h), (a[2] \div h) * (b[2] \div g))
    ELSE IF IsNaN(a) \/ IsNaN(b) \/ a[1] = 0 \/ b[1] = 0 THEN NaN
    ELSE <<Sgn(a[1]) * Sgn(b[1]), 0>>

RDiv(a, b) ==
    IF IsFin(a) /\ IsFin(b)
    THEN LET g == GCD(Abs(a[1]), Abs(b[1]))
             h == GCD(a[2], b[2])
         IN  IF b[1] = 0 THEN <<Sgn(a[1]), 0>>
             ELSE R((a[1] \div g) * (b[2] \div h), (a[2] \div h) * (b[1] \div g))
    ELSE IF IsNaN(a) \/ IsNaN(b) THEN NaN
    ELSE IF IsFin(a) THEN Zero
    ELSE IF IsFin(b) THEN <<a[1] * (IF b[1] < 0 THEN -1 ELSE 1), 0>>
    ELSE NaN

\* an ordered comparison; false as soon as one side is NaN
RLt(a, b) ==
    /\ ~IsNaN(a)
    /\ ~IsNaN(b)
    /\ IF IsFin(a) /\ IsFin(b) THEN a[1] * b[2] < b[1] * a[2]
       ELSE IF IsFin(a) THEN b = PosInf
       ELSE IF IsFin(b) THEN a = NegInf
       ELSE a = NegInf /\ b = PosInf

RLe(a, b) == ~IsNaN(a) /\ ~IsNaN(b) /\ ~RLt(b, a)
RGt(a, b) == RLt(b, a)
RGe(a, b) == RLe(b, a)

RAbs(a) == <<Abs(a[1]), a[2]>>
RMax(a, b) == IF RLt(a, b) THEN b ELSE a
RMin(a, b) == IF RLt(b, a) THEN b ELSE a

----------------------------------------------------------------------------
(* Sums of square roots *)

VZero == [r \in {} |-> Zero]

\* a NaN or an infinity as a value
VSp(s) == (0 :> s)

IsSp(v) == 0 \in DOMAIN v

\* coef * sqrt(rad)
Term(coef, rad) ==
    IF ~IsFin(coef) THEN VSp(coef)
    ELSE IF coef[1] = 0 THEN VZero
    ELSE (rad :> coef)

VRat(q) == Term(q, 1)

VOne == VRat(One)

VCoef(v, r) == IF r \in DOMAIN v THEN v[r] ELSE Zero

VAdd(a, b) ==
    IF IsSp(a) \/ IsSp(b) THEN VSp(RAdd(VCoef(a, 0), VCoef(b, 0)))
    ELSE LET sum(r) == RAdd(VCoef(a, r), VCoef(b, r))
         IN  [r \in {x \in DOMAIN a \cup DOMAIN b : sum(x) # Zero} |-> sum(r)]

\* q * v for a finite or special rational q
VScale(q, v) ==
    IF IsSp(v) THEN VSp(RMul(q, v[0]))
    ELSE IF ~IsFin(q) THEN (IF v = VZero \/ IsNaN(q) THEN VSp(NaN) ELSE VSp(q))
    ELSE IF q[1] = 0 THEN VZero
    ELSE [r \in DOMAIN v |-> RMul(q, v[r])]

\* the rational a value is, when it is one
VToRat(v) ==
    IF v = VZero THEN Zero
    ELSE IF IsSp(v) THEN v[0]
    ELSE v[1]

\* the largest k in lo .. hi with k*k dividing m, or 0
RECURSIVE SqIn(_, _, _)
SqIn(m, lo, hi) ==
    IF lo * lo > m THEN 0
    ELSE IF lo = hi THEN (IF m % (lo * lo) = 0 THEN lo ELSE 0)
    ELSE LET mid == (lo + hi) \div 2
             up == SqIn(m, mid + 1, hi)
         IN  IF up # 0 THEN up ELSE SqIn(m, lo, mid)

\* the largest k with k*k dividing m
SqPart(m) == SqIn(m, 1, IF m < 46340 THEN m ELSE 46340)

\* sqrt(q) as [c, r]: c * sqrt(r), r squarefree
RSqrt(q) ==
    IF IsNaN(q) \/ q[1] < 0 THEN [c |-> NaN, r |-> 1]
    ELSE IF q = PosInf THEN [c |-> PosInf, r |-> 1]
    ELSE IF q[1] = 0 THEN [c |-> Zero, r |-> 1]
    ELSE LET kn == SqPart(q[1])
             kd == SqPart(q[2])
             rn == q[1] \div (kn * kn)
             rd == q[2] \div (kd * kd)
         IN  [c |-> R(kn, kd * rd), r |-> rn * rd]

----------------------------------------------------------------------------
(* Vectors, frames and interactions *)

\* a Vector3f with rational coordinates
Vec(x, y, z) == <<VRat(x), VRat(y), VRat(z)>>

\* s * a + t * b + n * c for rational vectors s, t, n and Floats a, b, c
to_world(frame, v) ==
    [k \in 1 .. 3 |->
        VAdd(VAdd(VScale(frame.s[k], v[1]), VScale(frame.t[k], v[2])),
             VScale(frame.n[k], v[3]))]

\* dr::dot of a vector and a vector with rational coordinates
dot(a, b) ==
    VAdd(VAdd(VScale(b[1], a[1]), VScale(b[2], a[2])), VScale(b[3], a[3]))

\* the shading frame of a medium interaction: orthonormal, its normal is wi
Frame3f(s, t, wi) == [s |-> s, t |-> t, n |-> wi]

MediumInteraction(s, t, wi) == [wi |-> wi, sh_frame |-> Frame3f(s, t, wi)]

\* the interactions the calls are made at: a mixture is called at the first
MI0 ==
    MediumInteraction(<<R(4, 5), R(-3, 5), Zero>>, <<Zero, Zero, One>>,
                      <<R(3, 5), R(4, 5), Zero>>)

MI1 == MediumInteraction(<<One, Zero, Zero>>, <<Zero, One, Zero>>, <<Zero, Zero, One>>)

MIs(o) == IF o.kind = "hg" THEN {MI0, MI1} ELSE {MI0}

\* the outgoing directions eval is asked about
Dirs ==
    { Vec(Zero, Zero, One), Vec(Zero, Zero, R(-1, 1)), Vec(Zero, R(3, 5), R(4, 5)) }

\* dr::sincos(2 * Pi * y) as <<sin, cos>>, for y a number of quarter turns
sincos2pi(y) ==
    CASE y = Zero -> <<Zero, One>>
      [] y = R(1, 4) -> <<One, Zero>>
      [] y = R(1, 2) -> <<Zero, R(-1, 1)>>
      [] y = R(3, 4) -> <<R(-1, 1), Zero>>

\* dr::safe_sqrt(x) = sqrt(max(x, 0))
safe_sqrt(x) == LET rt == RSqrt(RMax(x, Zero)) IN Term(rt.c, rt.r)

\* sample1
Uniforms == {R(k, UDen) : k \in 0 .. UDen - 1}

\* sample2: a kernel is sampled at more points than a mixture
Points(o) ==
    IF o.kind = "hg"
    THEN {<<x, y>> : x \in Uniforms, y \in {Zero, R(1, 4), R(1, 2), R(3, 4)}}
    ELSE {<<Zero, R(1, 4)>>, <<R(1, 2), R(1, 4)>>}

\* (uint32_t) -1, the component selector of an unrestricted request
Unrestricted == -1

----------------------------------------------------------------------------
(* src/src/phase/hg.cpp *)

\* dr::Epsilon<float> is 2^-24
EpsilonDen == 16777216
Epsilon == R(1, EpsilonDen)

DefaultG == R(8, 10)

GVals == {R(k, GDen) : k \in -(GDen + 1) .. GDen + 1}

HGProps == {[has_g |-> FALSE]} \cup {[has_g |-> TRUE, g |-> g] : g \in GVals}

\* Log(Error, ...) raises: the constructor does not return an object
LogError(msg) == [kind |-> "failed", error |-> msg]

\* Throw(...)
Throw(msg) == [kind |-> "failed", error |-> msg]

\* the range check with the bounds let in
HGOutOfRangeStrict(m_g) == RGt(m_g, One) \/ RLt(m_g, R(-1, 1))

HGOutOfRange(m_g) == RGe(m_g, One) \/ RLe(m_g, R(-1, 1))

HGPhaseFunction(props) ==
    LET m_g == IF props.has_g THEN props.g ELSE DefaultG
    IN  IF HGOutOfRange(m_g)
        THEN LogError("The asymmetry parameter must lie in the interval (-1, 1)!")
        ELSE [kind |-> "hg", m_g |-> m_g,
              m_flags |-> {"Anisotropic"},
              m_components |-> <<{"Anisotropic"}>>]

eval_hg(m_g, cos_theta) ==
    LET temp == RAdd(RAdd(One, RMul(m_g, m_g)), RMul(RMul(Two, m_g), cos_theta))
        rt == RSqrt(temp)
        \* temp * sqrt(temp) = den * sqrt(rt.r)
        den == RMul(temp, rt.c)
        num == RSub(One, RMul(m_g, m_g))
    IN  Term(RDiv(num, RMul(den, R(rt.r, 1))), rt.r)

HGCosTheta(m_g, x) ==
    IF RLt(RAbs(m_g), Epsilon)
    THEN RSub(One, RMul(Two, x))
    ELSE LET sqr_term == RDiv(RSub(One, RMul(m_g, m_g)),
                              RAdd(RSub(One, m_g), RMul(RMul(Two, m_g), x)))
         IN  RDiv(RSub(RAdd(One, RMul(m_g, m_g)), RMul(sqr_term, sqr_term)),
                  RMul(Two, m_g))

\* sample with the density taken at cos_theta instead of -cos_theta
HGSampleFlipped(p, mi, sample2) ==
    LET cos_theta == HGCosTheta(p.m_g, sample2[1])
        sin_theta == safe_sqrt(RSub(One, RMul(cos_theta, cos_theta)))
        sc == sincos2pi(sample2[2])
        wo == <<VScale(sc[2], sin_theta), VScale(sc[1], sin_theta),
                VRat(RNeg(cos_theta))>>
    IN  [wo |-> to_world(mi.sh_frame, wo),
         pdf |-> eval_hg(p.m_g, cos_theta),
         assigned |-> TRUE,
         calls |-> <<>>]

HGSample(p, mi, sample2) ==
    LET cos_theta == HGCosTheta(p.m_g, sample2[1])
        sin_theta == safe_sqrt(RSub(One, RMul(cos_theta, cos_theta)))
        sc == sincos2pi(sample2[2])
        wo == <<VScale(sc[2], sin_theta), VScale(sc[1], sin_theta),
                VRat(RNeg(cos_theta))>>
    IN  [wo |-> to_world(mi.sh_frame, wo),
         pdf |-> eval_hg(p.m_g, RNeg(cos_theta)),
         assigned |-> TRUE,
         calls |-> <<>>]

HGEval(p, mi, wo) == eval_hg(p.m_g, VToRat(dot(wo, mi.wi)))

----------------------------------------------------------------------------
(* src/unnamed/part_000: the blended phase function *)

component_count(p) == Len(p.m_components)

\* dynamic_cast<PhaseFunction *>(obj.get()) succeeds
IsPhase(o) == o.kind \in {"hg", "blendphase"}

\* an object of a property list that is no phase function
VolumeObject == [kind |-> "volume"]

\* the collecting loop that refuses a second child already
RECURSIVE BlendCollectOne(_, _)
BlendCollectOne(objects, st) ==
    IF objects = <<>> \/ st.thrown THEN st
    ELSE IF IsPhase(Head(objects))
    THEN IF st.phase_index = 1
         THEN [st EXCEPT !.thrown = TRUE]
         ELSE BlendCollectOne(Tail(objects),
                  [st EXCEPT !.phase_index = @ + 1,
                             !.m_nested_phase = Append(@, Head(objects))])
    ELSE BlendCollectOne(Tail(objects), st)

\* the loop over props.objects(): st is [phase_index, m_nested_phase, thrown]
RECURSIVE BlendCollect(_, _)
BlendCollect(objects, st) ==
    IF objects = <<>> \/ st.thrown THEN st
    ELSE IF IsPhase(Head(objects))
    THEN IF st.phase_index = 2
         THEN [st EXCEPT !.thrown = TRUE]
         ELSE BlendCollect(Tail(objects),
                  [st EXCEPT !.phase_index = @ + 1,
                             !.m_nested_phase = Append(@, Head(objects))])
    ELSE BlendCollect(Tail(objects), st)

\* props.volume<Volume>("weight") raises when there is no such property
HasVolume(props) == props.has_weight

BlendArityError(phase_index) == phase_index # 2

RECURSIVE BlendComponents(_)
BlendComponents(nested) ==
    IF nested = <<>> THEN <<>>
    ELSE Head(nested).m_components \o BlendComponents(Tail(nested))

BlendPhaseFunction(props) ==
    LET st == BlendCollect(props.objects,
                  [phase_index |-> 0, m_nested_phase |-> <<>>, thrown |-> FALSE])
    IN  IF st.thrown
        THEN Throw("BlendPhase: Cannot specify more than two child phase functions")
        ELSE IF ~HasVolume(props)
        THEN Throw("Property weight has not been specified!")
        ELSE IF BlendArityError(st.phase_index)
        THEN Throw("BlendPhase: Two child phase functions must be specified!")
        ELSE [kind |-> "blendphase",
              m_weight |-> props.weight,
              m_nested_phase |-> st.m_nested_phase,
              m_components |-> BlendComponents(st.m_nested_phase),
              m_flags |-> st.m_nested_phase[1].m_flags \cup st.m_nested_phase[2].m_flags]

\* dr::clamp(value, min, max) = maximum(minimum(value, max), min)
clamp(value, lo, hi) == RMax(RMin(value, hi), lo)

\* m_weight is a volume with the same value everywhere
eval_weight(p, mi) == clamp(p.m_weight, Zero, One)

RECURSIVE EvalPhase(_, _, _, _)

\* eval with the two factors of the unrestricted sum exchanged
BlendEvalSwapped(p, component, mi, wo) ==
    LET weight == eval_weight(p, mi)
        n0 == component_count(p.m_nested_phase[1])
        sample_first == component < n0
        ctx2 == IF ~sample_first THEN component - n0 ELSE component
        weight2 == IF ~sample_first THEN weight ELSE RSub(One, weight)
    IN  IF component # Unrestricted
        THEN VScale(weight2,
                    EvalPhase(p.m_nested_phase[IF sample_first THEN 1 ELSE 2],
                              ctx2, mi, wo))
        ELSE VAdd(VScale(weight,
                         EvalPhase(p.m_nested_phase[1], component, mi, wo)),
                  VScale(RSub(One, weight),
                         EvalPhase(p.m_nested_phase[2], component, mi, wo)))

\* eval that hands the selector to the second child without rebasing it
BlendEvalNoRebase(p, component, mi, wo) ==
    LET weight == eval_weight(p, mi)
        n0 == component_count(p.m_nested_phase[1])
        sample_first == component < n0
        weight2 == IF ~sample_first THEN weight ELSE RSub(One, weight)
    IN  IF component # Unrestricted
        THEN VScale(weight2,
                    EvalPhase(p.m_nested_phase[IF sample_first THEN 1 ELSE 2],
                              component, mi, wo))
        ELSE VAdd(VScale(RSub(One, weight),
                         EvalPhase(p.m_nested_phase[1], component, mi, wo)),
                  VScale(weight,
                         EvalPhase(p.m_nested_phase[2], component, mi, wo)))

BlendEval(p, component, mi, wo) ==
    LET weight == eval_weight(p, mi)
        n0 == component_count(p.m_nested_phase[1])
        sample_first == component < n0
        ctx2 == IF ~sample_first THEN component - n0 ELSE component
        weight2 == IF ~sample_first THEN weight ELSE RSub(One, weight)
    IN  IF component # Unrestricted
        THEN VScale(weight2,
                    EvalPhase(p.m_nested_phase[IF sample_first THEN 1 ELSE 2],
                              ctx2, mi, wo))
        ELSE VAdd(VScale(RSub(One, weight),
                         EvalPhase(p.m_nested_phase[1], component, mi, wo)),
                  VScale(weight,
                         EvalPhase(p.m_nested_phase[2], component, mi, wo)))

\* PhaseFunction::eval, dispatched on the object's class
EvalPhase(p, component, mi, wo) ==
    IF p.kind = "hg" THEN HGEval(p, mi, wo) ELSE BlendEval(p, component, mi, wo)

RECURSIVE SamplePhase(_, _, _, _, _)

\* wo and pdf when no statement has assigned them
Uninitialized == "uninitialized"

\* sample that scales the density by the mixing weight in unrestricted mode too
BlendSampleScaled(p, component, mi, sample1, sample2) ==
    LET weight == eval_weight(p, mi)
        n0 == component_count(p.m_nested_phase[1])
        sample_first == component < n0
        ctx2 == IF ~sample_first THEN component - n0 ELSE component
        weight2 == IF ~sample_first THEN weight ELSE RSub(One, weight)
        child == IF sample_first THEN 0 ELSE 1
        r == SamplePhase(p.m_nested_phase[child + 1], ctx2, mi, sample1, sample2)
        m0 == RGt(sample1, weight)
        m1 == RLe(sample1, weight)
        u0 == RDiv(RSub(sample1, weight), RSub(One, weight))
        u1 == RDiv(sample1, weight)
        r0 == SamplePhase(p.m_nested_phase[1], component, mi, u0, sample2)
        r1 == SamplePhase(p.m_nested_phase[2], component, mi, u1, sample2)
    IN  IF component # Unrestricted
        THEN [wo |-> r.wo,
              pdf |-> IF r.assigned THEN VScale(weight2, r.pdf) ELSE Uninitialized,
              assigned |-> r.assigned,
              calls |-> <<[child |-> child, component |-> ctx2,
                           sample1 |-> sample1, sample2 |-> sample2]>>]
        ELSE [wo |-> IF m1 THEN r1.wo ELSE IF m0 THEN r0.wo ELSE Uninitialized,
              pdf |-> IF m1 THEN VScale(weight, r1.pdf)
                      ELSE IF m0 THEN VScale(RSub(One, weight), r0.pdf)
                      ELSE Uninitialized,
              assigned |-> IF m1 THEN r1.assigned ELSE IF m0 THEN r0.assigned ELSE FALSE,
              calls |->
                  (IF m0 THEN <<[child |-> 0, component |-> component,
                                 sample1 |-> u0, sample2 |-> sample2]>>
                         ELSE <<>>)
                  \o
                  (IF m1 THEN <<[child |-> 1, component |-> component,
                                 sample1 |-> u1, sample2 |-> sample2]>>
                         ELSE <<>>)]

\* sample that scales the density by weight whichever child owns the component
BlendSampleSameWeight(p, component, mi, sample1, sample2) ==
    LET weight == eval_weight(p, mi)
        n0 == component_count(p.m_nested_phase[1])
        sample_first == component < n0
        ctx2 == IF ~sample_first THEN component - n0 ELSE component
        weight2 == weight
        child == IF sample_first THEN 0 ELSE 1
        r == SamplePhase(p.m_nested_phase[child + 1], ctx2, mi, sample1, sample2)
        m0 == RGt(sample1, weight)
        m1 == RLe(sample1, weight)
        u0 == RDiv(RSub(sample1, weight), RSub(One, weight))
        u1 == RDiv(sample1, weight)
        r0 == SamplePhase(p.m_nested_phase[1], component, mi, u0, sample2)
        r1 == SamplePhase(p.m_nested_phase[2], component, mi, u1, sample2)
    IN  IF component # Unrestricted
        THEN [wo |-> r.wo,
              pdf |-> IF r.assigned THEN VScale(weight2, r.pdf) ELSE Uninitialized,
              assigned |-> r.assigned,
              calls |-> <<[child |-> child, component |-> ctx2,
                           sample1 |-> sample1, sample2 |-> sample2]>>]
        ELSE [wo |-> IF m1 THEN r1.wo ELSE IF m0 THEN r0.wo ELSE Uninitialized,
              pdf |-> IF m1 THEN r1.pdf ELSE IF m0 THEN r0.pdf ELSE Uninitialized,
              assigned |-> IF m1 THEN r1.assigned ELSE IF m0 THEN r0.assigned ELSE FALSE,
              calls |->
                  (IF m0 THEN <<[child |-> 0, component |-> component,
                                 sample1 |-> u0, sample2 |-> sample2]>>
                         ELSE <<>>)
                  \o
                  (IF m1 THEN <<[child |-> 1, component |-> component,
                                 sample1 |-> u1, sample2 |-> sample2]>>
                         ELSE <<>>)]

\* assigned tells whether wo and pdf were assigned on the way: where no branch
\* of the unrestricted path is active they are returned as declared.
\* calls lists the calls made to the nested phase functions with an active mask.
BlendSample(p, component, mi, sample1, sample2) ==
    LET weight == eval_weight(p, mi)
        n0 == component_count(p.m_nested_phase[1])
        sample_first == component < n0
        ctx2 == IF ~sample_first THEN component - n0 ELSE component
        weight2 == IF ~sample_first THEN weight ELSE RSub(One, weight)
        child == IF sample_first THEN 0 ELSE 1
        r == SamplePhase(p.m_nested_phase[child + 1], ctx2, mi, sample1, sample2)
        m0 == RGt(sample1, weight)
        m1 == RLe(sample1, weight)
        u0 == RDiv(RSub(sample1, weight), RSub(One, weight))
        u1 == RDiv(sample1, weight)
        r0 == SamplePhase(p.m_nested_phase[1], component, mi, u0, sample2)
        r1 == SamplePhase(p.m_nested_phase[2], component, mi, u1, sample2)
    IN  IF component # Unrestricted
        THEN [wo |-> r.wo,
              pdf |-> IF r.assigned THEN VScale(weight2, r.pdf) ELSE Uninitialized,
              assigned |-> r.assigned,
              calls |-> <<[child |-> child, component |-> ctx2,
                           sample1 |-> sample1, sample2 |-> sample2]>>]
        ELSE [wo |-> IF m1 THEN r1.wo ELSE IF m0 THEN r0.wo ELSE Uninitialized,
              pdf |-> IF m1 THEN r1.pdf ELSE IF m0 THEN r0.pdf ELSE Uninitialized,
              assigned |-> IF m1 THEN r1.assigned ELSE IF m0 THEN r0.assigned ELSE FALSE,
              calls |->
                  (IF m0 THEN <<[child |-> 0, component |-> component,
                                 sample1 |-> u0, sample2 |-> sample2]>>
                         ELSE <<>>)
                  \o
                  (IF m1 THEN <<[child |-> 1, component |-> component,
                                 sample1 |-> u1, sample2 |-> sample2]>>
                         ELSE <<>>)]

\* PhaseFunction::sample, dispatched on the object's class
SamplePhase(p, component, mi, sample1, sample2) ==
    IF p.kind = "hg" THEN HGSample(p, mi, sample2)
    ELSE BlendSample(p, component, mi, sample1, sample2)

----------------------------------------------------------------------------
(* The state machine *)

\* the weight a property list gives, from below 0 to above 1
WeightVals == {R(-1, 2), Zero, R(1, 4), R(3, 4), One, R(3, 2)}

\* the kernels a mixture is built from
Leaves == {HGPhaseFunction([has_g |-> TRUE, g |-> g]) : g \in {Zero, R(1, 2)}}

\* a kernel, or a mixture of two kernels
IsFlat(o) ==
    \/ o.kind = "hg"
    \/ o.kind = "blendphase" /\ \A i \in 1 .. 2 : o.m_nested_phase[i].kind = "hg"

\* the phase functions a new mixture may hold: new kernels, and the mixture
\* built so far when its own children are kernels
Nestable(o) == Leaves \cup (IF o.kind = "blendphase" /\ IsFlat(o) THEN {o} ELSE {})

\* the objects of a property list: phase functions, after at most one other object
ObjectLists(S) ==
    LET phases ==
            {l \in UNION {[1 .. n -> S] : n \in 0 .. MaxPhases} :
                Cardinality({i \in DOMAIN l : l[i].kind = "blendphase"}) <= 1}
    IN  phases \cup {<<VolumeObject>> \o l : l \in phases}

BlendProps(o) ==
    {[objects |-> objects, has_weight |-> FALSE] : objects \in ObjectLists(Nestable(o))}
    \cup
    {[objects |-> objects, has_weight |-> TRUE, weight |-> w] :
        objects \in ObjectLists(Nestable(o)), w \in WeightVals}

Kinds(objects) == [i \in DOMAIN objects |-> objects[i].kind]

\* what a wo and pdf that were never assigned may hold
Junk ==
    { [wo |-> Vec(Zero, Zero, Zero), pdf |-> VZero],
      [wo |-> Vec(One, Zero, Zero), pdf |-> VSp(NaN)] }

Usable(o) == IsPhase(o)

\* the scene is being loaded: no object has been handed to the renderer
Loading == out.op \in {"none", "hg_construct", "blend_construct"}

\* the renderer holds the object and has no call in progress
Rendering == out.op \in {"returned", "update"}

Components(o) == {Unrestricted} \cup (0 .. component_count(o) - 1)

Init ==
    /\ obj = [kind |-> "none"]
    /\ out = [op |-> "none"]

\* new HGPhaseFunction(props)
HGConstruct ==
    /\ obj.kind = "none"
    /\ \E props \in HGProps :
        /\ obj' = HGPhaseFunction(props)
        /\ out' = [op |-> "hg_construct", props |-> props]

\* new BlendPhaseFunction(props), of new kernels and the object built so far
BlendConstruct ==
    /\ Loading
    /\ obj.kind = "none" \/ (obj.kind = "blendphase" /\ IsFlat(obj))
    /\ \E props \in BlendProps(obj) :
        /\ obj' = BlendPhaseFunction(props)
        /\ out' = [op |-> "blend_construct",
                   kinds |-> Kinds(props.objects),
                   has_weight |-> props.has_weight]

\* traverse() hands out m_g; the caller writes it
HGUpdate ==
    /\ obj.kind = "hg"
    /\ Rendering
    /\ \E v \in GVals :
        /\ obj' = [obj EXCEPT !.m_g = v]
        /\ out' = [op |-> "update", g |-> v]

Eval ==
    /\ Usable(obj)
    /\ Rendering
    /\ \E component \in Components(obj), mi \in MIs(obj), wo \in Dirs :
        out' = [op |-> "eval", component |-> component, mi |-> mi, wo |-> wo,
                value |-> EvalPhase(obj, component, mi, wo)]
    /\ UNCHANGED obj

Sample ==
    /\ Usable(obj)
    /\ Rendering
    /\ \E component \in Components(obj), mi \in MIs(obj), sample1 \in Uniforms,
          sample2 \in Points(obj) :
        LET r == SamplePhase(obj, component, mi, sample1, sample2)
        IN  \E junk \in (IF r.assigned THEN {[wo |-> r.wo, pdf |-> r.pdf]} ELSE Junk) :
                out' = [op |-> "sample", component |-> component, mi |-> mi,
                        sample1 |-> sample1, sample2 |-> sample2,
                        wo |-> junk.wo, pdf |-> junk.pdf,
                        assigned |-> r.assigned, calls |-> r.calls]
    /\ UNCHANGED obj

\* the caller takes what the last operation returned: the object, or the value
Return ==
    /\ out.op \in {"hg_construct", "blend_construct", "eval", "sample"}
    /\ Usable(obj)
    /\ out' = [op |-> "returned"]
    /\ UNCHANGED obj

Next ==
    \/ HGConstruct
    \/ BlendConstruct
    \/ HGUpdate
    \/ Eval
    \/ Sample
    \/ Return

Spec == Init /\ [][Next]_vars

----------------------------------------------------------------------------
(* The properties *)

MixtureCall(op) == out.op = op /\ obj.kind = "blendphase"

ChildA == obj.m_nested_phase[1]
ChildB == obj.m_nested_phase[2]

\* the weight of the mixture in use, clamped into [0, 1]
W ==
    LET raw == obj.m_weight
    IN  IF raw[1] < 0 THEN Zero ELSE IF raw[1] > raw[2] THEN One ELSE raw

Interior(w) == w[1] > 0 /\ w[1] < w[2]

\* den * v = (den - num) * a + num * b, radicand by radicand
IsBlendOf(v, num, den, a, b) ==
    /\ ~IsSp(v) /\ ~IsSp(a) /\ ~IsSp(b)
    /\ \A r \in DOMAIN v \cup DOMAIN a \cup DOMAIN b :
        RMul(R(den, 1), VCoef(v, r)) =
            RAdd(RMul(R(den - num, 1), VCoef(a, r)), RMul(R(num, 1), VCoef(b, r)))

\* C1: an unrestricted eval of a mixture returns (1-w) * A.eval(wo) + w * B.eval(wo)
\* for the clamped weight w and the children A and B: A.eval(wo) when w = 0 and
\* B.eval(wo) when w = 1.
C1_MixtureDensity ==
    (MixtureCall("eval") /\ out.component = Unrestricted) =>
        LET a == EvalPhase(ChildA, Unrestricted, out.mi, out.wo)
            b == EvalPhase(ChildB, Unrestricted, out.mi, out.wo)
        IN  /\ IsBlendOf(out.value, W[1], W[2], a, b)
            /\ W = Zero => out.value = a
            /\ W = One => out.value = b

C1_Witness ==
    /\ MixtureCall("eval")
    /\ out.component = Unrestricted
    /\ Interior(W)
    /\ EvalPhase(ChildA, Unrestricted, out.mi, out.wo) #
           EvalPhase(ChildB, Unrestricted, out.mi, out.wo)

RECURSIVE SumRestricted(_, _, _, _)
SumRestricted(p, k, mi, wo) ==
    IF k = 0 THEN VZero
    ELSE VAdd(SumRestricted(p, k - 1, mi, wo), EvalPhase(p, k - 1, mi, wo))

\* C2: for a mixture, nested or not, the restricted evals summed over the components
\* 0 .. component_count() - 1 give the unrestricted eval of the same interaction and
\* direction.
C2_RestrictedSum ==
    (MixtureCall("eval") /\ out.component = Unrestricted) =>
        out.value = SumRestricted(obj, component_count(obj), out.mi, out.wo)

C2_Witness ==
    /\ MixtureCall("eval")
    /\ out.component = Unrestricted
    /\ Interior(W)
    /\ ChildB.kind = "blendphase"
    /\ Interior(ChildB.m_weight)
    /\ ChildB.m_weight # obj.m_weight
    /\ ChildB.m_nested_phase[1] # ChildB.m_nested_phase[2]
    /\ out.value # VZero

\* C3: an unrestricted sample of a mixture of weight 0 calls child 0 alone and
\* returns what child 0 returns for the same sample1 and sample2, whatever sample1
\* in [0, 1); of weight 1, child 1 alone.
C3_DegenerateWeight ==
    (MixtureCall("sample") /\ out.component = Unrestricted /\ W \in {Zero, One}) =>
        LET child == IF W = Zero THEN 0 ELSE 1
            r == SamplePhase(obj.m_nested_phase[child + 1], Unrestricted, out.mi,
                             out.sample1, out.sample2)
        IN  /\ Len(out.calls) = 1
            /\ out.calls[1].child = child
            /\ out.calls[1].sample1 = out.sample1
            /\ out.wo = r.wo
            /\ out.pdf = r.pdf

Owner(k) ==
    LET n0 == Len(ChildA.m_components)
    IN  IF k < n0
        THEN [child |-> 0, component |-> k, factor |-> R(W[2] - W[1], W[2])]
        ELSE [child |-> 1, component |-> k - n0, factor |-> W]

\* C5: a restricted eval or sample of a mixture, component k, goes to child 0 with
\* k when k < children[0].component_count(), else to child 1 with k less that
\* count; the density is scaled by 1-w for child 0 and by w for child 1; sample
\* passes sample1 and sample2 on and returns the child's direction as they are.
C5_RestrictedForwarding ==
    /\ (MixtureCall("eval") /\ out.component # Unrestricted) =>
        LET o == Owner(out.component)
        IN  out.value =
                VScale(o.factor, EvalPhase(obj.m_nested_phase[o.child + 1],
                                           o.component, out.mi, out.wo))
    /\ (MixtureCall("sample") /\ out.component # Unrestricted) =>
        LET o == Owner(out.component)
            r == SamplePhase(obj.m_nested_phase[o.child + 1], o.component, out.mi,
                             out.sample1, out.sample2)
        IN  /\ out.calls = <<[child |-> o.child, component |-> o.component,
                              sample1 |-> out.sample1, sample2 |-> out.sample2]>>
            /\ out.assigned
            /\ out.wo = r.wo
            /\ out.pdf = VScale(o.factor, r.pdf)

C5_Witness ==
    /\ MixtureCall("sample")
    /\ out.component = 2
    /\ Interior(W)
    /\ out.calls[1].child = 1
    /\ out.calls[1].component = 1
    /\ out.pdf # VZero

NumPhases(kinds) ==
    Cardinality({i \in DOMAIN kinds : kinds[i] \in {"hg", "blendphase"}})

C7_HGConstruction ==
    out.op = "hg_construct" =>
        LET g == IF out.props.has_g THEN out.props.g ELSE <<4, 5>>
        IN  IF g[1] >= g[2] \/ g[1] <= -g[2]
            THEN obj.kind = "failed"
            ELSE obj.kind = "hg" /\ obj.m_g = g

C7_Witness ==
    /\ out.op = "hg_construct"
    /\ out.props.has_g
    /\ out.props.g = One
    /\ obj.kind = "failed"

InRange(g) == IsFin(g) /\ -g[2] < g[1] /\ g[1] < g[2]

\* C8: for -1 < g < 1 the density the Henyey-Greenstein sample returns is what eval
\* returns for the direction sample returned, at the same interaction.
C8_SampleEvalConsistency ==
    (out.op = "sample" /\ obj.kind = "hg" /\ InRange(obj.m_g)) =>
        out.pdf = EvalPhase(obj, Unrestricted, out.mi, out.wo)

C8_Witness ==
    /\ out.op = "sample"
    /\ obj.kind = "hg"
    /\ InRange(obj.m_g)
    /\ obj.m_g # Zero
    /\ out.sample2[1] # Zero
    /\ out.pdf # VOne
    /\ out.mi = MI0

\* C9: in an unrestricted sample of a mixture the first uniform handed to the child
\* that is called lies in [0, 1).
C9_RenormalizedUniform ==
    (MixtureCall("sample") /\ out.component = Unrestricted) =>
        \A i \in DOMAIN out.calls :
            LET x == out.calls[i].sample1
            IN  IsFin(x) /\ 0 <= x[1] /\ x[1] < x[2]

\* C10: the asymmetry parameter of a usable Henyey-Greenstein kernel satisfies
\* -1 < g < 1 in every state, also after updates of the field "g".
C10_GInRange == obj.kind = "hg" => InRange(obj.m_g)

====
